---- MODULE Spec2Model ----
(***************************************************************************)
(* Senate Lobbying Disclosure Dashboard (app.py): one submitted search,    *)
(* from the sidebar form through the paginated fetch loop to the           *)
(* normalisation of the accumulated filings into the displayed table.      *)
(***************************************************************************)
EXTENDS Integers, Sequences, FiniteSets, TLC

VARIABLES
    api_key,            \* resolved credential: None or Str(s)
    registrant_input,   \* text field, a sequence of characters
    client_input,       \* text field, a sequence of characters
    filing_types,       \* multiselect, a duplicate-free sequence of codes
    amount_min,
    amount_max,
    date_range,         \* date_input, a tuple of 0, 1 or 2 dates
    max_pages,          \* slider
    params,             \* dict of query parameters
    all_filings,        \* accumulated raw records
    next_url,           \* page cursor: None or Str(url)
    page_count,
    requests,           \* GET calls issued by the session, in order
    responses,          \* what the server answered, in order
    messages,           \* st.error / st.warning / st.success calls, in order
    df,                 \* frame after json_normalize and 'Amount Reported'
    df_clean,           \* frame handed to st.dataframe
    pc                  \* position of the script run

vars == <<api_key, registrant_input, client_input, filing_types, amount_min,
          amount_max, date_range, max_pages, params, all_filings, next_url,
          page_count, requests, responses, messages, df, df_clean, pc>>

form == <<api_key, registrant_input, client_input, filing_types, amount_min,
          amount_max, date_range, max_pages>>

(***************************************************************************)
(* Bounds of the model.                                                    *)
(***************************************************************************)
MaxPages == 2          \* the slider offers 1..20; the model 1..MaxPages
NumTypes == 2          \* how many of the report-type codes the form offers
MaxRecords == 4        \* records in a batch handed to the normaliser

(***************************************************************************)
(* Python and JSON values.  A value carries its type so that values of     *)
(* different types can be told apart.                                      *)
(***************************************************************************)
None == <<"None">>
NaN == <<"NaN">>
Str(s) == <<"str", s>>
Num(n) == <<"num", n>>
Dict(f) == <<"dict", f>>
EmptyDict == <<>>

IsDict(v) == v[1] = "dict"

\* Python truthiness of an optional string: None and "" are falsy.
Truthy(v) == v # None /\ v # Str("")

\* pandas isna: None and NaN both count as missing.
IsNull(v) == v = None \/ v = NaN

\* dict.get(key, default)
Get(d, key, default) == IF key \in DOMAIN d THEN d[key] ELSE default

Range(s) == {s[i] : i \in 1..Len(s)}

BoundedSeq(S, n) == UNION {[1..k -> S] : k \in 0..n}

(***************************************************************************)
(* str.strip(): drops leading and trailing whitespace.                     *)
(***************************************************************************)
Whitespace == {" ", "\t", "\n"}

RECURSIVE LStrip(_)
LStrip(s) == IF s # <<>> /\ Head(s) \in Whitespace THEN LStrip(Tail(s)) ELSE s

RECURSIVE RStrip(_)
RStrip(s) ==
    IF s # <<>> /\ s[Len(s)] \in Whitespace
    THEN RStrip(SubSeq(s, 1, Len(s) - 1))
    ELSE s

Strip(s) == RStrip(LStrip(s))

(***************************************************************************)
(* date.strftime("%Y-%m-%d")                                               *)
(***************************************************************************)
Digit(n) ==
    CASE n = 0 -> "0" [] n = 1 -> "1" [] n = 2 -> "2" [] n = 3 -> "3"
      [] n = 4 -> "4" [] n = 5 -> "5" [] n = 6 -> "6" [] n = 7 -> "7"
      [] n = 8 -> "8" [] n = 9 -> "9"

Pad2(n) == Digit((n \div 10) % 10) \o Digit(n % 10)

Pad4(n) == Pad2(n \div 100) \o Pad2(n % 100)

Strftime(d) == Pad4(d.year) \o "-" \o Pad2(d.month) \o "-" \o Pad2(d.day)

(***************************************************************************)
(* The sidebar form.                                                       *)
(***************************************************************************)
BASE_URL == "https://lda.senate.gov/api/v1/filings/"

filing_type_options == <<"Q1", "Q2", "Q3", "Q4", "MM", "YY", "RR", "RA">>

\* The codes the model's form offers: the first NumTypes of the options.
OfferedTypes ==
    {filing_type_options[i] :
        i \in 1..(IF NumTypes < Len(filing_type_options)
                  THEN NumTypes ELSE Len(filing_type_options))}

\* st.multiselect returns the chosen options, each at most once.
Selections ==
    {s \in BoundedSeq(OfferedTypes, Cardinality(OfferedTypes)) :
        \A i, j \in 1..Len(s) : i # j => s[i] # s[j]}

\* What the key text field can hold, and what the secrets store can do.
KeyInputs == {"", "k"}
SecretStates == {"raises", "absent", "s"}

\* Lines 23-30: the typed key wins; otherwise st.secrets.get, which returns
\* the secret, returns None, or raises (no secrets file) and leaves "".
ResolveKey(typed, secret) ==
    IF typed # "" THEN Str(typed)
    ELSE IF secret = "raises" THEN Str("")
    ELSE IF secret = "absent" THEN None
    ELSE Str(secret)

NameInputs == {<<>>, <<" ">>, <<" ", "a", " ">>}

AmountInputs == {0, 5000, 10000}

StartDate == [year |-> 2024, month |-> 1, day |-> 5]
EndDate == [year |-> 2024, month |-> 12, day |-> 31]

\* st.date_input with value=[]: nothing, a start only, or a start and an end.
DateRanges == {<<>>, <<StartDate>>, <<StartDate, EndDate>>}

(***************************************************************************)
(* Messages shown to the user.                                             *)
(***************************************************************************)
MissingKeyError == [level |-> "error", text |-> "Missing API Key"]
ValidationError == [level |-> "error", text |-> "Validation Error"]
DateWarning == [level |-> "warning", text |-> "select both dates"]
ApiError(status_code) ==
    [level |-> "error", text |-> "API Error", status_code |-> status_code]
ExceptionError == [level |-> "error", text |-> "An error occurred"]
NoRecordsWarning == [level |-> "warning", text |-> "No records found"]
Success(n) == [level |-> "success", text |-> "Found records", count |-> n]

(***************************************************************************)
(* Lines 72-79: the two checks made before anything else.                  *)
(***************************************************************************)
\* Variant of NamesMissing: the fields are tested as typed, untrimmed.
NamesMissingUntrimmed(registrant, client) ==
    registrant = <<>> /\ client = <<>>

KeyMissing(key) == ~Truthy(key)

NamesMissing(registrant, client) ==
    Strip(registrant) = <<>> /\ Strip(client) = <<>>

(***************************************************************************)
(* Lines 82-108: the query parameters, only the fields supplied.           *)
(***************************************************************************)
\* Variant of FilingTypeParam: the first code is sent for any selection.
FilingTypeParamFirst(types) ==
    IF types # <<>> THEN "filing_type" :> types[1] ELSE EmptyDict

FilingTypeParam(types) ==
    IF types # <<>> /\ Len(types) = 1
    THEN "filing_type" :> types[1]
    ELSE EmptyDict

BuildParams(registrant, client, types, amin, amax, dates) ==
    (IF Strip(registrant) # <<>>
     THEN "registrant_name" :> Strip(registrant) ELSE EmptyDict)
    @@ (IF Strip(client) # <<>>
        THEN "client_name" :> Strip(client) ELSE EmptyDict)
    @@ FilingTypeParam(types)
    @@ (IF amin > 0 THEN "filing_amount_reported_min" :> amin ELSE EmptyDict)
    @@ (IF amax > 0 /\ amax >= amin
        THEN "filing_amount_reported_max" :> amax ELSE EmptyDict)
    @@ (IF Len(dates) = 2
        THEN ("filing_dt_posted_after" :> Strftime(dates[1]))
             @@ ("filing_dt_posted_before" :> Strftime(dates[2]))
        ELSE EmptyDict)

\* Lines 113-116 and the f-string "Token {api_key}".
Headers(key) ==
    [Authorization |-> "Token " \o key[2], ContentType |-> "application/json"]

\* df and df_clean before they are assigned.
NoFrame == [columns |-> {}, rows |-> <<>>]

(***************************************************************************)
(* The state before the form is submitted.                                 *)
(***************************************************************************)
Blank ==
    /\ params = EmptyDict
    /\ all_filings = <<>>
    /\ next_url = None
    /\ page_count = 0
    /\ requests = <<>>
    /\ responses = <<>>
    /\ messages = <<>>
    /\ df = NoFrame
    /\ df_clean = NoFrame

Init ==
    /\ \E typed \in KeyInputs, secret \in SecretStates :
            api_key = ResolveKey(typed, secret)
    /\ registrant_input \in NameInputs
    /\ client_input \in NameInputs
    /\ filing_types \in Selections
    /\ amount_min = 0
    /\ amount_max = 0
    /\ date_range = <<>>
    /\ max_pages \in 1..MaxPages
    /\ Blank
    /\ pc = "form"

(***************************************************************************)
(* Lines 70-127: the submit button.  Either check can stop the run;        *)
(* otherwise the parameters are built and the loop variables are set.      *)
(***************************************************************************)
SubmitMissingKey ==
    /\ pc = "form"
    /\ KeyMissing(api_key)
    /\ messages' = Append(messages, MissingKeyError)
    /\ pc' = "stopped"
    /\ UNCHANGED <<form, params, all_filings, next_url, page_count, requests,
                   responses, df, df_clean>>

SubmitNamesMissing ==
    /\ pc = "form"
    /\ ~KeyMissing(api_key)
    /\ NamesMissing(registrant_input, client_input)
    /\ messages' = Append(messages, ValidationError)
    /\ pc' = "stopped"
    /\ UNCHANGED <<form, params, all_filings, next_url, page_count, requests,
                   responses, df, df_clean>>

SubmitSearch ==
    /\ pc = "form"
    /\ ~KeyMissing(api_key)
    /\ ~NamesMissing(registrant_input, client_input)
    /\ params' = BuildParams(registrant_input, client_input, filing_types,
                             amount_min, amount_max, date_range)
    /\ messages' = IF Len(date_range) = 1
                   THEN Append(messages, DateWarning) ELSE messages
    /\ all_filings' = <<>>
    /\ next_url' = Str(BASE_URL)
    /\ page_count' = 0
    /\ pc' = "fetch"
    /\ UNCHANGED <<form, requests, responses, df, df_clean>>

Submit == SubmitMissingKey \/ SubmitNamesMissing \/ SubmitSearch

(***************************************************************************)
(* The server.  A GET either raises (network failure) or returns a         *)
(* response with a status code and a body; the body of a 200 response is   *)
(* a JSON object that may hold `results` and `next`, or is not JSON.       *)
(***************************************************************************)
NextUrls == {BASE_URL \o "?page=2", BASE_URL \o "?page=3"}

ErrorStatuses == {403}

\* The filings the server may put on a page.
ServerRecords ==
    {EmptyDict,
     ("filing_type" :> Str("Q1")) @@ ("income" :> Num(100))}

\* The `results` arrays of the model's pages: empty, or one filing.
ResultArrays == {<<>>} \cup {<<r>> : r \in ServerRecords}

JsonBodies ==
    {results @@ next :
        results \in {EmptyDict} \cup {"results" :> r : r \in ResultArrays},
        next \in {EmptyDict, "next" :> None} \cup
                 {"next" :> Str(u) : u \in NextUrls}}

NetworkFailure == [kind |-> "exception"]

HttpResponse(status_code, is_json, data) ==
    [kind |-> "http", status_code |-> status_code, is_json |-> is_json,
     data |-> data]

OkResponses == {HttpResponse(200, TRUE, body) : body \in JsonBodies}

ServerResponses ==
    {NetworkFailure}
    \cup {HttpResponse(code, FALSE, EmptyDict) : code \in ErrorStatuses}
    \cup {HttpResponse(200, FALSE, EmptyDict)}
    \cup OkResponses

IsOk(response) ==
    response.kind = "http" /\ response.status_code = 200 /\ response.is_json

(***************************************************************************)
(* Lines 131-154: one iteration of the fetch loop.                         *)
(***************************************************************************)
\* Variant of LoopCond: the cursor alone decides, without the page cap.
LoopCondNoCap(url, count, cap) == Truthy(url)

LoopCond(url, count, cap) == Truthy(url) /\ count < cap

\* Variant of Request: the parameters go with every call.
RequestWithParams(url, count, p, key) ==
    [url |-> url[2], headers |-> Headers(key), params |-> p]

\* Lines 133-136: the parameters go with the first call only.
Request(url, count, p, key) ==
    IF count = 0
    THEN [url |-> url[2], headers |-> Headers(key), params |-> p]
    ELSE [url |-> url[2], headers |-> Headers(key)]

\* Variant of Extend: the page replaces what was accumulated.
ExtendOverwrites(filings, data) == Get(data, "results", <<>>)

\* Lines 143-144: all_filings.extend(data.get('results', []))
Extend(filings, data) == filings \o Get(data, "results", <<>>)

\* Line 146: data.get('next')
NextOf(data) == Get(data, "next", None)

Issue(response) ==
    /\ pc = "fetch"
    /\ LoopCond(next_url, page_count, max_pages)
    /\ requests' = Append(requests, Request(next_url, page_count, params, api_key))
    /\ responses' = Append(responses, response)

\* session.get raises: the except clause reports it and the loop is left.
FetchRaises ==
    /\ Issue(NetworkFailure)
    /\ messages' = Append(messages, ExceptionError)
    /\ pc' = "process"
    /\ UNCHANGED <<form, params, all_filings, next_url, page_count, df, df_clean>>

\* Variant of FetchApiError: the records accumulated so far are dropped.
FetchApiErrorDiscards ==
    \E response \in ServerResponses :
        /\ response.kind = "http"
        /\ response.status_code # 200
        /\ Issue(response)
        /\ messages' = Append(messages, ApiError(response.status_code))
        /\ all_filings' = <<>>
        /\ pc' = "process"
        /\ UNCHANGED <<form, params, next_url, page_count, df, df_clean>>

\* Lines 138-140: a status other than 200 is reported and breaks the loop.
FetchApiError ==
    \E response \in ServerResponses :
        /\ response.kind = "http"
        /\ response.status_code # 200
        /\ Issue(response)
        /\ messages' = Append(messages, ApiError(response.status_code))
        /\ pc' = "process"
        /\ UNCHANGED <<form, params, all_filings, next_url, page_count, df,
                       df_clean>>

\* Line 142: response.json() raises on a body that is not JSON.
FetchBadJson ==
    \E response \in ServerResponses :
        /\ response.kind = "http"
        /\ response.status_code = 200
        /\ ~response.is_json
        /\ Issue(response)
        /\ messages' = Append(messages, ExceptionError)
        /\ pc' = "process"
        /\ UNCHANGED <<form, params, all_filings, next_url, page_count, df,
                       df_clean>>

\* Lines 142-147: the page is accumulated and the cursor advances.
FetchPage ==
    \E response \in ServerResponses :
        /\ IsOk(response)
        /\ Issue(response)
        /\ all_filings' = Extend(all_filings, response.data)
        /\ next_url' = NextOf(response.data)
        /\ page_count' = page_count + 1
        /\ pc' = "fetch"
        /\ UNCHANGED <<form, params, messages, df, df_clean>>

Fetch == FetchRaises \/ FetchApiError \/ FetchBadJson \/ FetchPage

(***************************************************************************)
(* Line 167: pd.json_normalize flattens each record, naming nested fields  *)
(* by dotted paths; a column a record lacks holds NaN in that row.         *)
(***************************************************************************)
RECURSIVE MergeAll(_)
MergeAll(fs) ==
    IF fs = {} THEN EmptyDict
    ELSE LET f == CHOOSE g \in fs : TRUE IN f @@ MergeAll(fs \ {f})

RECURSIVE Flatten(_, _)
Flatten(record, prefix) ==
    MergeAll({IF IsDict(record[k])
              THEN Flatten(record[k][2], prefix \o k \o ".")
              ELSE (prefix \o k) :> record[k] : k \in DOMAIN record})

JsonNormalize(records) ==
    LET flat == [i \in 1..Len(records) |-> Flatten(records[i], "")]
        columns == UNION {DOMAIN flat[i] : i \in 1..Len(records)}
    IN [columns |-> columns,
        rows |-> [i \in 1..Len(records) |->
                     [c \in columns |-> Get(flat[i], c, NaN)]]]

\* Series.fillna(other): a missing cell takes the other column's cell.
FillNa(value, other) == IF IsNull(value) THEN other ELSE value

\* Lines 171-178: the column is chosen by which columns the frame has.
AmountOf(frame, row) ==
    IF "income" \in frame.columns /\ "expenses" \in frame.columns
    THEN FillNa(row["income"], row["expenses"])
    ELSE IF "income" \in frame.columns THEN row["income"]
    ELSE IF "expenses" \in frame.columns THEN row["expenses"]
    ELSE Num(0)

WithAmountReported(frame) ==
    [columns |-> frame.columns \cup {"Amount Reported"},
     rows |-> [i \in 1..Len(frame.rows) |->
                  [c \in frame.columns \cup {"Amount Reported"} |->
                      IF c = "Amount Reported"
                      THEN AmountOf(frame, frame.rows[i])
                      ELSE frame.rows[i][c]]]]

\* Lines 182-189.
column_map ==
    ("registrant.name" :> "Registrant Name")
    @@ ("client.name" :> "Client Name")
    @@ ("filing_type" :> "Report Type")
    @@ ("Amount Reported" :> "Amount Reported")
    @@ ("filing_year" :> "Filing Year")
    @@ ("dt_posted" :> "Posted")

\* Lines 192-193: the mapped columns the frame has, renamed.
SelectRename(frame) ==
    LET available_cols == {c \in DOMAIN column_map : c \in frame.columns}
        renamed == {column_map[c] : c \in available_cols}
        Source(name) == CHOOSE c \in available_cols : column_map[c] = name
    IN [columns |-> renamed,
        rows |-> [i \in 1..Len(frame.rows) |->
                     [name \in renamed |-> frame.rows[i][Source(name)]]]]

\* Line 197: the in-memory filter applies to a multiple selection only.
FilterApplies(types) == Len(types) > 1

\* Line 198: df_clean['Report Type'] raises KeyError without that column.
FilterRaises(frame, types) ==
    FilterApplies(types) /\ "Report Type" \notin frame.columns

\* Line 198: Series.isin keeps the rows whose cell is one of the codes.
IsIn(value, types) == \E i \in 1..Len(types) : value = Str(types[i])

FilterReportType(frame, types) ==
    LET Keep(row) == IsIn(row["Report Type"], types)
    IN [columns |-> frame.columns, rows |-> SelectSeq(frame.rows, Keep)]

(***************************************************************************)
(* Lines 159-226: after the loop.  No records: a warning.  Otherwise the   *)
(* frame is built, filtered and displayed; the filter's KeyError is        *)
(* raised outside the try block and ends the run.                          *)
(***************************************************************************)
LoopLeft ==
    \/ pc = "process"
    \/ pc = "fetch" /\ ~LoopCond(next_url, page_count, max_pages)

ProcessEmpty ==
    /\ LoopLeft
    /\ all_filings = <<>>
    /\ messages' = Append(messages, NoRecordsWarning)
    /\ pc' = "done"
    /\ UNCHANGED <<form, params, all_filings, next_url, page_count, requests,
                   responses, df, df_clean>>

ProcessRaises ==
    /\ LoopLeft
    /\ all_filings # <<>>
    /\ df' = WithAmountReported(JsonNormalize(all_filings))
    /\ FilterRaises(SelectRename(df'), filing_types)
    /\ df_clean' = SelectRename(df')
    /\ pc' = "crashed"
    /\ UNCHANGED <<form, params, all_filings, next_url, page_count, requests,
                   responses, messages>>

ProcessTable ==
    /\ LoopLeft
    /\ all_filings # <<>>
    /\ df' = WithAmountReported(JsonNormalize(all_filings))
    /\ ~FilterRaises(SelectRename(df'), filing_types)
    /\ df_clean' = IF FilterApplies(filing_types)
                   THEN FilterReportType(SelectRename(df'), filing_types)
                   ELSE SelectRename(df')
    /\ messages' = Append(messages, Success(Len(df_clean'.rows)))
    /\ pc' = "done"
    /\ UNCHANGED <<form, params, all_filings, next_url, page_count, requests,
                   responses>>

Process == ProcessEmpty \/ ProcessRaises \/ ProcessTable

Next == Submit \/ Fetch \/ Process

Spec == Init /\ [][Next]_vars

(***************************************************************************)
(* The query builder alone: every combination of the form's fields, and    *)
(* the submit button.                                                      *)
(***************************************************************************)
InitQuery ==
    /\ \E typed \in KeyInputs, secret \in SecretStates :
            api_key = ResolveKey(typed, secret)
    /\ registrant_input \in NameInputs
    /\ client_input \in NameInputs
    /\ filing_types \in Selections
    /\ amount_min \in AmountInputs
    /\ amount_max \in AmountInputs
    /\ date_range \in DateRanges
    /\ max_pages \in 1..MaxPages
    /\ Blank
    /\ pc = "form"

SpecQuery == InitQuery /\ [][Submit]_vars

(***************************************************************************)
(* The normaliser alone: a search whose only page held the batch, with     *)
(* the loop about to be left.                                              *)
(***************************************************************************)
ExampleRecords ==
    {"income" :> Num(100),
     "expenses" :> Num(50),
     ("income" :> Num(10)) @@ ("expenses" :> Num(20)),
     EmptyDict,
     ("filing_type" :> Str("Q1"))
        @@ ("registrant" :> Dict("name" :> Str("AARP"))),
     ("filing_type" :> Str("Q2")) @@ ("income" :> None)
        @@ ("expenses" :> Num(50)),
     "filing_type" :> Str("Q3")}

InitNormalize ==
    /\ api_key = Str("k")
    /\ registrant_input = <<" ", "a", " ">>
    /\ client_input = <<>>
    /\ filing_types \in Selections
    /\ amount_min = 0
    /\ amount_max = 0
    /\ date_range = <<>>
    /\ max_pages = 1
    /\ params = BuildParams(registrant_input, client_input, filing_types,
                            amount_min, amount_max, date_range)
    /\ all_filings \in BoundedSeq(ExampleRecords, MaxRecords)
    /\ next_url = None
    /\ page_count = 1
    /\ requests = <<Request(Str(BASE_URL), 0, params, api_key)>>
    /\ responses = <<HttpResponse(200, TRUE,
                        ("results" :> all_filings) @@ ("next" :> None))>>
    /\ messages = <<>>
    /\ df = NoFrame
    /\ df_clean = NoFrame
    /\ pc = "fetch"

SpecNormalize == InitNormalize /\ [][Process]_vars

(***************************************************************************)
(* Vocabulary of the properties.                                           *)
(***************************************************************************)
Shown(message) == \E i \in 1..Len(messages) : messages[i] = message

Finished == pc \in {"done", "crashed"}

LoopOver == LoopLeft \/ Finished

ResultsOf(response) ==
    IF "results" \in DOMAIN response.data THEN response.data["results"] ELSE <<>>

HasNext(response) ==
    "next" \in DOMAIN response.data /\ response.data["next"] # None

RECURSIVE ConcatResults(_, _)
ConcatResults(rs, n) ==
    IF n = 0 THEN <<>> ELSE ConcatResults(rs, n - 1) \o ResultsOf(rs[n])

AllOk(n) == \A i \in 1..n : IsOk(responses[i])

IsApiError(response) == response.kind = "http" /\ response.status_code # 200

CredentialMissing == api_key = None \/ api_key = Str("")

BothNamesEmpty == Strip(registrant_input) = <<>> /\ Strip(client_input) = <<>>

(***************************************************************************)
(* C1: the fetch loop issues at most max_pages GET requests, whatever the  *)
(* server answers; page_count never exceeds max_pages, and once max_pages  *)
(* requests are out the loop is over.                                      *)
(***************************************************************************)
C1_PageCapBound ==
    /\ page_count <= max_pages
    /\ Len(requests) <= max_pages
    /\ Len(requests) = max_pages => LoopOver

\* The cap is what stopped a search: every page named a next page.
C1_Witness ==
    /\ pc = "done"
    /\ max_pages = MaxPages
    /\ page_count = max_pages
    /\ Len(requests) = max_pages
    /\ \A i \in 1..Len(responses) : IsOk(responses[i]) /\ HasNext(responses[i])

C3_Concatenation ==
    AllOk(Len(responses)) /\ pc # "form" /\ pc # "stopped" =>
        /\ all_filings = ConcatResults(responses, Len(responses))
        /\ page_count = Len(responses)
        /\ \A i \in 1..(Len(responses) - 1) : HasNext(responses[i])
        /\ responses # <<>> =>
            (LoopOver <=> \/ Len(responses) = max_pages
                          \/ ~HasNext(responses[Len(responses)]))

\* An empty page with a next page was followed by a page with a record.
C3_Witness ==
    /\ pc = "done"
    /\ Len(responses) = 2
    /\ AllOk(2)
    /\ "results" \in DOMAIN responses[1].data
    /\ ResultsOf(responses[1]) = <<>>
    /\ HasNext(responses[1])
    /\ ResultsOf(responses[2]) # <<>>
    /\ all_filings = ResultsOf(responses[2])

(***************************************************************************)
(* C4: the first GET goes to BASE_URL with the parameter set; every later  *)
(* GET carries no parameters and goes to the `next` URL of the response    *)
(* just before it, which was a success.                                    *)
(***************************************************************************)
C4_ParamsFirstCallOnly ==
    \A i \in 1..Len(requests) :
        IF i = 1
        THEN /\ requests[i].url = BASE_URL
             /\ "params" \in DOMAIN requests[i]
             /\ requests[i].params = params
        ELSE /\ "params" \notin DOMAIN requests[i]
             /\ IsOk(responses[i - 1])
             /\ HasNext(responses[i - 1])
             /\ Str(requests[i].url) = responses[i - 1].data["next"]

\* A second GET was issued, to the URL the first page named.
C4_Witness ==
    /\ Len(requests) = 2
    /\ requests[2].url \in NextUrls
    /\ requests[2].url # BASE_URL

(***************************************************************************)
(* C6: once the parameters are built, they hold filing_type, equal to the  *)
(* selected code, exactly when one report type is selected.                *)
(***************************************************************************)
C6_FilingTypeParam ==
    pc = "fetch" =>
        /\ "filing_type" \in DOMAIN params <=> Len(filing_types) = 1
        /\ Len(filing_types) = 1 => params["filing_type"] = filing_types[1]

\* Two codes were selected and the parameters were built without the field.
C6_Witness ==
    /\ pc = "fetch"
    /\ Len(filing_types) = 2
    /\ "filing_type" \notin DOMAIN params
    /\ "registrant_name" \in DOMAIN params

(***************************************************************************)
(* C8: a submission with no credential, or with both names empty after     *)
(* trimming, stops with one error message, no request and no record; a     *)
(* request is issued only with a credential and a name.                    *)
(***************************************************************************)
C8_ValidationBeforeFetch ==
    /\ pc # "form" /\ (CredentialMissing \/ BothNamesEmpty) =>
        /\ pc = "stopped"
        /\ requests = <<>>
        /\ all_filings = <<>>
        /\ Len(messages) = 1
        /\ messages[1].level = "error"
    /\ requests # <<>> => ~CredentialMissing /\ ~BothNamesEmpty

\* A name of blanks only, with a credential, was turned away.
C8_Witness ==
    /\ pc = "stopped"
    /\ ~CredentialMissing
    /\ registrant_input = <<" ">>
    /\ client_input = <<>>
    /\ Shown(ValidationError)
    /\ requests = <<>>

(***************************************************************************)
(* C9 as stated: "No records found" is shown exactly when the search is    *)
(* over, every fetched page succeeded and together they held no record.    *)
(***************************************************************************)
C9_NoMatchesOnlyWhenClean ==
    Shown(NoRecordsWarning) <=>
        /\ pc = "done"
        /\ AllOk(Len(responses))
        /\ ConcatResults(responses, Len(responses)) = <<>>

(***************************************************************************)
(* C10 as stated: no search ends in an unhandled exception.                *)
(***************************************************************************)
C10_NoUnhandledFailure == pc # "crashed"

(***************************************************************************)
(* C5 as stated: each row's Amount Reported is its record's income when    *)
(* present and non-null, otherwise its expenses when present, otherwise 0. *)
(***************************************************************************)
ClaimedAmount(record) ==
    IF "income" \in DOMAIN record /\ record["income"] # None
    THEN record["income"]
    ELSE IF "expenses" \in DOMAIN record THEN record["expenses"]
    ELSE Num(0)

C5_AmountReported ==
    Finished /\ all_filings # <<>> =>
        /\ Len(df.rows) = Len(all_filings)
        /\ \A i \in 1..Len(all_filings) :
              df.rows[i]["Amount Reported"] = ClaimedAmount(all_filings[i])

(***************************************************************************)
(* C7 as stated: with two or more codes selected the table holds exactly   *)
(* the rows, in order, whose Report Type is one of the codes; with fewer   *)
(* it holds one row for each record.                                       *)
(***************************************************************************)
ClaimedRows ==
    LET table == SelectRename(df)
        Selected(row) == \E t \in Range(filing_types) :
                            row["Report Type"] = Str(t)
    IN IF Len(filing_types) < 2 THEN table.rows
       ELSE IF "Report Type" \in table.columns
            THEN SelectSeq(table.rows, Selected)
            ELSE <<>>

C7_ReportTypeFilter ==
    Finished /\ all_filings # <<>> =>
        /\ pc = "done"
        /\ df_clean.rows = ClaimedRows
        /\ Len(filing_types) < 2 => Len(df_clean.rows) = Len(all_filings)

====
